---- MODULE Spec2Model ----
(***************************************************************************)
(* Streaming research-discovery pipeline.                                  *)
(*   - ResearchDiscoveryService.stream_search and its helpers              *)
(*     (backend/app/services/research.py)                                  *)
(*   - the /research/discover route's event_stream                         *)
(*     (backend/app/api/routes.py)                                         *)
(* Texts are sequences of one-character strings, so that strip, splitlines *)
(* and tokenisation are computed character by character as the code does.  *)
(***************************************************************************)
EXTENDS Integers, Sequences, FiniteSets, TLC

\* ---------------------------------------------------------------- bounds
MaxPapers == 2      \* papers in the loaded index
MaxTopK == 2        \* requested result cap (max_results / top_k)
MaxEntries == 2     \* entries in a rerank response

\* ------------------------------------------------------ program constants
MaxExpansions == 5
RetrievalFactor == 4
DefaultTopK == 5
ScoreScale == 10 * 10 * 10   \* fixed-point unit of the float scores

\* ------------------------------------------------------------- characters
NL == "\n"
Whitespace == {" ", NL}
IsAlnum(c) == c \in {"a", "b", "c", "A", "B"}
Lower(c) == IF c = "A" THEN "a" ELSE IF c = "B" THEN "b" ELSE c

Min(a, b) == IF a <= b THEN a ELSE b

\* list[:n] for n >= 0
Take(s, n) == SubSeq(s, 1, Min(n, Len(s)))

\* ------------------------------------------------------------ str methods
RECURSIVE LStripChars(_, _)
LStripChars(s, cs) ==
    IF s # <<>> /\ Head(s) \in cs THEN LStripChars(Tail(s), cs) ELSE s

RECURSIVE RStripChars(_, _)
RStripChars(s, cs) ==
    IF s # <<>> /\ s[Len(s)] \in cs
    THEN RStripChars(SubSeq(s, 1, Len(s) - 1), cs)
    ELSE s

\* str.strip(chars)
StripChars(s, cs) == RStripChars(LStripChars(s, cs), cs)

\* str.strip()
Strip(s) == StripChars(s, Whitespace)

\* str.splitlines(): no trailing empty line, "" has no line
RECURSIVE SplitLines(_)
SplitLines(s) ==
    IF s = <<>> THEN <<>>
    ELSE LET nl == {i \in 1..Len(s) : s[i] = NL} IN
         IF nl = {} THEN <<s>>
         ELSE LET i == CHOOSE k \in nl : \A j \in nl : k <= j IN
              <<SubSeq(s, 1, i - 1)>> \o SplitLines(SubSeq(s, i + 1, Len(s)))

\* str.split() collected into a set; cur is the token being read
RECURSIVE SplitWs(_, _)
SplitWs(s, cur) ==
    IF s = <<>> THEN (IF cur = <<>> THEN {} ELSE {cur})
    ELSE IF Head(s) \in Whitespace
         THEN (IF cur = <<>> THEN {} ELSE {cur}) \cup SplitWs(Tail(s), <<>>)
         ELSE SplitWs(Tail(s), Append(cur, Head(s)))

\* ResearchDiscoveryService._tokenize
Tokenize(text) ==
    LET cleaned == [i \in 1..Len(text) |->
                      IF IsAlnum(text[i]) THEN Lower(text[i]) ELSE " "]
    IN SplitWs(cleaned, <<>>)

\* --------------------------------------------------------------- numerics
\* floor of the square root, by bisection on lo..hi
RECURSIVE SqrtBetween(_, _, _)
SqrtBetween(n, lo, hi) ==
    IF lo >= hi THEN lo
    ELSE LET mid == (lo + hi + 1) \div 2 IN
         IF mid * mid <= n THEN SqrtBetween(n, mid, hi)
         ELSE SqrtBetween(n, lo, mid - 1)

\* math.sqrt(n) in units of 1/ScoreScale
SqrtFixed(n) == SqrtBetween(n * ScoreScale * ScoreScale, 0, (n + 1) * ScoreScale)

\* ArxivPaper.to_document
ToDocument(paper) == paper.title \o <<NL>> \o paper.summary

\* ------------------------------------------------------------- exceptions
NoError == "none"
ServiceError == "ResearchServiceError"
DecodeError == "JSONDecodeError"
AttributeError == "AttributeError"

\* outcome of a helper: it returns value, or raises
Returned(v) == [raised |-> NoError, value |-> v]
Raised(e) == [raised |-> e, value |-> <<>>]

\* Optional[float]: <<>> is None, <<x>> is x
None == <<>>
Some(x) == <<x>>
\* match.rerank_score or 0.0
ScoreOrZero(rs) == IF rs = None THEN 0 ELSE rs[1]

\* -------------------------------------------------------------- list.sort
\* pairs are <<key, element>>; p goes after every pair whose key is >= its own
InsertAfterGE(pairs, p) ==
    LET n == Cardinality({i \in 1..Len(pairs) : pairs[i][1] >= p[1]}) IN
    SubSeq(pairs, 1, n) \o <<p>> \o SubSeq(pairs, n + 1, Len(pairs))

RECURSIVE SortPairsDesc(_)
SortPairsDesc(pairs) ==
    IF pairs = <<>> THEN <<>>
    ELSE InsertAfterGE(SortPairsDesc(SubSeq(pairs, 1, Len(pairs) - 1)),
                       pairs[Len(pairs)])

\* a sort that puts p before the pairs with an equal key (not stable)
InsertBeforeLE(pairs, p) ==
    LET n == Cardinality({i \in 1..Len(pairs) : pairs[i][1] > p[1]}) IN
    SubSeq(pairs, 1, n) \o <<p>> \o SubSeq(pairs, n + 1, Len(pairs))

RECURSIVE SortPairsDescUnstable(_)
SortPairsDescUnstable(pairs) ==
    IF pairs = <<>> THEN <<>>
    ELSE InsertBeforeLE(SortPairsDescUnstable(SubSeq(pairs, 1, Len(pairs) - 1)),
                        pairs[Len(pairs)])

\* SortDesc with the unstable sort
SortDescUnstable(s, keys) ==
    LET sorted == SortPairsDescUnstable([i \in 1..Len(s) |-> <<keys[i], s[i]>>]) IN
    [i \in 1..Len(s) |-> sorted[i][2]]

\* list.sort(key=..., reverse=True): descending by key, equal keys keep
\* their order; keys[i] is the key of s[i]
SortDesc(s, keys) ==
    LET sorted == SortPairsDesc([i \in 1..Len(s) |-> <<keys[i], s[i]>>]) IN
    [i \in 1..Len(s) |-> sorted[i][2]]

\* ------------------------------------------------------------ _expand_query
\* _expand_query without the fallback of lines 270-271
ParseExpansionsNoFallback(query, content) ==
    LET raw == SplitLines(content)
        kept == SelectSeq(raw, LAMBDA line : Strip(line) # <<>>)
        lines == [i \in 1..Len(kept) |-> StripChars(kept[i], {"-", " "})]
    IN Take(SelectSeq(lines, LAMBDA line : line # <<>>), MaxExpansions)

\* _expand_query falling back to the query as given, not stripped
ParseExpansionsUntrimmed(query, content) ==
    LET parsed == ParseExpansionsNoFallback(query, content) IN
    IF parsed = <<>> THEN <<query>> ELSE parsed

\* lines 268-272: the phrases read from the reply's content
ParseExpansions(query, content) ==
    LET raw == SplitLines(content)
        kept == SelectSeq(raw, LAMBDA line : Strip(line) # <<>>)
        lines == [i \in 1..Len(kept) |-> StripChars(kept[i], {"-", " "})]
        expansions == SelectSeq(lines, LAMBDA line : line # <<>>)
    IN Take(IF expansions = <<>> THEN <<Strip(query)>> ELSE expansions,
            MaxExpansions)

\* lines 254-272: what the call's reply makes of the helper.  A body that is
\* not JSON makes response.json() raise; a body without
\* choices[0].message.content raises at line 266; a content of null has no
\* splitlines()
ExpandQuery(query, reply) ==
    CASE reply.kind = "transport_error" -> Raised(ServiceError)
      [] reply.kind = "not_json" -> Raised(DecodeError)
      [] reply.kind = "bad_envelope" -> Raised(ServiceError)
      [] reply.kind = "null_content" -> Raised(AttributeError)
      [] OTHER -> Returned(ParseExpansions(query, reply.content))

\* ------------------------------------------------------ _retrieve_candidates
\* line 284-287: one term of the score, in units of 1/ScoreScale
OverlapTerm(doc_tokens, q_tokens) ==
    IF q_tokens = {} THEN 0
    ELSE IF doc_tokens = {} THEN 0
    ELSE (Cardinality(doc_tokens \cap q_tokens) * ScoreScale * ScoreScale)
         \div SqrtFixed(Cardinality(doc_tokens) * Cardinality(q_tokens))

RECURSIVE RetrievalScore(_, _)
RetrievalScore(doc_tokens, tokens_sets) ==
    IF tokens_sets = <<>> THEN 0
    ELSE OverlapTerm(doc_tokens, Head(tokens_sets))
         + RetrievalScore(doc_tokens, Tail(tokens_sets))

CandidateMatch(paper, score) ==
    [paper |-> paper, retrieval_score |-> score, rerank_score |-> None]

\* _retrieve_candidates scoring against the expansion phrases alone
RetrieveCandidatesExpansionsOnly(corpus, query, expansions, limit) ==
    LET tokens_sets == [i \in 1..Len(expansions) |-> Tokenize(expansions[i])]
        scored == [i \in 1..Len(corpus) |->
                     CandidateMatch(corpus[i],
                        RetrievalScore(Tokenize(ToDocument(corpus[i])), tokens_sets))]
        matches == SelectSeq(scored, LAMBDA m : m.retrieval_score > 0)
    IN Take(SortDesc(matches, [i \in 1..Len(matches) |-> matches[i].retrieval_score]),
            limit)

\* _retrieve_candidates returning every match
RetrieveCandidatesUncut(corpus, query, expansions, limit) ==
    LET tokens_sets == <<Tokenize(query)>>
                       \o [i \in 1..Len(expansions) |-> Tokenize(expansions[i])]
        scored == [i \in 1..Len(corpus) |->
                     CandidateMatch(corpus[i],
                        RetrievalScore(Tokenize(ToDocument(corpus[i])), tokens_sets))]
        matches == SelectSeq(scored, LAMBDA m : m.retrieval_score > 0)
    IN SortDesc(matches, [i \in 1..Len(matches) |-> matches[i].retrieval_score])

RetrieveCandidates(corpus, query, expansions, limit) ==
    LET tokens_sets == <<Tokenize(query)>>
                       \o [i \in 1..Len(expansions) |-> Tokenize(expansions[i])]
        scored == [i \in 1..Len(corpus) |->
                     CandidateMatch(corpus[i],
                        RetrievalScore(Tokenize(ToDocument(corpus[i])), tokens_sets))]
        matches == SelectSeq(scored, LAMBDA m : m.retrieval_score > 0)
    IN Take(SortDesc(matches, [i \in 1..Len(matches) |-> matches[i].retrieval_score]),
            limit)

\* -------------------------------------------------------- _rerank_candidates
\* a parse loop that lets every entry through
EntryParsesLenient(entry) == TRUE

\* lines 336-342: an entry the parse loop accepts
EntryParses(entry) == entry.has_index /\ entry.score_kind # "bad"

\* float(entry.get("relevance_score", 0.0))
EntryScore(entry) == IF entry.score_kind = "absent" THEN 0 ELSE entry.score

\* lines 334-343: the scores dict, later entries overwrite earlier ones
RECURSIVE ScoresOf(_)
ScoresOf(results) ==
    IF results = <<>> THEN [i \in {} |-> 0]
    ELSE LET before == ScoresOf(SubSeq(results, 1, Len(results) - 1))
             entry == results[Len(results)]
         IN [i \in DOMAIN before \cup {entry.index} |->
                IF i = entry.index THEN EntryScore(entry) ELSE before[i]]

\* scores.get(idx, 0.0)
\* scores.get(idx, 1.0): a candidate without a score is given the top one
ScoreGetDefaultOne(scores, idx) == IF idx \in DOMAIN scores THEN scores[idx] ELSE 1

ScoreGet(scores, idx) == IF idx \in DOMAIN scores THEN scores[idx] ELSE 0

\* the score assignment without the sort of line 348
ApplyScoresUnsorted(cands, scores) ==
    [i \in 1..Len(cands) |->
        [cands[i] EXCEPT !.rerank_score = Some(ScoreGet(scores, i - 1))]]

\* the score assignment with an index past the end read as the last position
ApplyScoresClamped(cands, scores) ==
    LET clamp(i) == IF i = Len(cands) - 1
                    THEN {k \in DOMAIN scores : k >= i}
                    ELSE {k \in DOMAIN scores : k = i}
        score(i) == IF clamp(i) = {} THEN 0
                    ELSE scores[CHOOSE k \in clamp(i) : \A m \in clamp(i) : m <= k]
        marked == [i \in 1..Len(cands) |->
                     [cands[i] EXCEPT !.rerank_score = Some(score(i - 1))]]
    IN SortDesc(marked, [i \in 1..Len(marked) |-> ScoreOrZero(marked[i].rerank_score)])

\* lines 345-349: assign the scores by position, then sort in place
ApplyScores(cands, scores) ==
    LET marked == [i \in 1..Len(cands) |->
                     [cands[i] EXCEPT !.rerank_score = Some(ScoreGet(scores, i - 1))]]
    IN SortDesc(marked, [i \in 1..Len(marked) |-> ScoreOrZero(marked[i].rerank_score)])

\* lines 319-349, for a non-empty candidate list
RerankCandidates(cands, response) ==
    CASE response.kind = "transport_error" -> Raised(ServiceError)
      [] response.kind = "not_json" -> Raised(DecodeError)
      [] response.kind = "no_results" -> Raised(ServiceError)
      [] OTHER ->
           IF \E i \in 1..Len(response.results) : ~EntryParses(response.results[i])
           THEN Raised(ServiceError)
           ELSE Returned(ApplyScores(cands, ScoresOf(response.results)))

\* -------------------------------------------------------- _explain_relevance
\* an explainer that answers a failed call with an empty justification
ExplainRelevanceLenient(reply) ==
    IF reply.kind = "ok" THEN Returned(Strip(reply.content)) ELSE Returned(<<>>)

\* _explain_relevance without the handler of lines 384-385: the transport
\* failure leaves as the httpx.HTTPError it is
ExplainRelevanceUnwrapped(reply) ==
    CASE reply.kind = "transport_error" -> Raised("HTTPError")
      [] reply.kind = "not_json" -> Raised(DecodeError)
      [] reply.kind = "bad_envelope" -> Raised(ServiceError)
      [] reply.kind = "null_content" -> Raised(AttributeError)
      [] OTHER -> Returned(Strip(reply.content))

\* lines 378-390
ExplainRelevance(reply) ==
    CASE reply.kind = "transport_error" -> Raised(ServiceError)
      [] reply.kind = "not_json" -> Raised(DecodeError)
      [] reply.kind = "bad_envelope" -> Raised(ServiceError)
      [] reply.kind = "null_content" -> Raised(AttributeError)
      [] OTHER -> Returned(Strip(reply.content))

\* a result whose title is put in lower case
ResearchResultRetitled(match, justification) ==
    [paper_id |-> match.paper.paper_id,
     title |-> [i \in 1..Len(match.paper.title) |-> Lower(match.paper.title[i])],
     summary |-> match.paper.summary, url |-> match.paper.url,
     published |-> match.paper.published,
     relevance |-> ScoreOrZero(match.rerank_score),
     justification |-> justification]

\* lines 181-189
ResearchResult(match, justification) ==
    [paper_id |-> match.paper.paper_id, title |-> match.paper.title,
     summary |-> match.paper.summary, url |-> match.paper.url,
     published |-> match.paper.published,
     relevance |-> ScoreOrZero(match.rerank_score),
     justification |-> justification]

\* ================================================================= state
VARIABLES
    papers,         \* self._papers, the index loaded at construction
    query,          \* stream_search's query argument
    max_results,    \* stream_search's max_results argument
    pc,             \* where the generator is suspended (a yield or an await)
    events,         \* the events stream_search has yielded so far
    expansions,     \* local of stream_search
    candidates,     \* local of stream_search (the list _rerank_candidates sorts)
    ranked,         \* local of stream_search
    final_results,  \* local of stream_search
    raised,         \* the exception the generator ended with, or NoError
    calls,          \* external calls issued so far, in order
    last_reply,     \* the reply of the latest external call that completed
    max_context_chars,  \* self._max_context_chars of the research service
    storage,        \* ContextStorage._storage, the entries in insertion order
    ttl,            \* ContextStorage._ttl
    now,            \* the clock read by datetime.now(timezone.utc)
    latest_context  \* what the latest get_latest_context call returned

\* the state of the process-wide ContextStorage and its clock
ctx_vars == <<storage, ttl, now, latest_context>>

vars == <<papers, query, max_results, pc, events, expansions, candidates,
          ranked, final_results, raised, calls, last_reply, max_context_chars,
          ctx_vars>>

\* research.py line 90 and context_storage.py line 15: the defaults
DefaultMaxContextChars == 1200
DefaultTtlMinutes == 30

\* a research service with the default budget, beside an empty ContextStorage
Constructed ==
    /\ max_context_chars = DefaultMaxContextChars
    /\ storage = <<>>
    /\ ttl = DefaultTtlMinutes
    /\ now = 0
    /\ latest_context = None

\* ---------------------------------------------------------------- inputs
PaperA == [paper_id |-> "p1", title |-> <<"A">>, summary |-> <<"a", " ", "b">>,
           url |-> "u1", published |-> "2020"]
PaperB == [paper_id |-> "p2", title |-> <<"b">>, summary |-> <<"c">>,
           url |-> "u2", published |-> ""]
\* an index entry that repeats the paper_id of PaperA
PaperC == [paper_id |-> "p1", title |-> <<"a">>, summary |-> <<>>,
           url |-> "u3", published |-> "2021"]
PaperPool == {PaperA, PaperB, PaperC}

\* _load_index accepts any non-empty list of entries; the indexes of the
\* model list each entry of the pool at most once
Corpora ==
    UNION {{c \in [1..n -> PaperPool] :
              \A i \in 1..n : \A j \in 1..n : i # j => c[i] # c[j]} :
           n \in 1..MaxPapers}

\* the last one is blank and as long as the route's schema asks
Queries == {<<"a">>, <<" ", "B", " ">>, <<" ">>, <<" ", " ", " ">>}

NoReply == [kind |-> "none"]
Failure(kind) == [kind |-> kind]
Content(text) == [kind |-> "ok", content |-> text]

\* replies of the chat-completions call of _expand_query
ExpandReplies ==
    {Failure("transport_error"), Failure("not_json"), Failure("bad_envelope"),
     Failure("null_content")}
    \cup {Content(<<>>), Content(<<"-", " ">>),
          Content(<<"-", " ", "a", NL, NL, "b", " ">>),
          Content(<<"c", NL, "b", NL, "b", NL, "b", NL, "b", NL, "a">>)}

\* an index no candidate list of the model reaches (scenario D uses 99)
OutOfRange == MaxPapers + 97
Entry(index, score) ==
    [has_index |-> TRUE, index |-> index, score_kind |-> "num", score |-> score]
EntryNoScore(index) ==
    [has_index |-> TRUE, index |-> index, score_kind |-> "absent", score |-> 0]
EntryBadScore(index) ==
    [has_index |-> TRUE, index |-> index, score_kind |-> "bad", score |-> 0]
EntryNoIndex(score) ==
    [has_index |-> FALSE, index |-> 0, score_kind |-> "num", score |-> score]

RerankEntries ==
    {Entry(0, 1), Entry(1, 1), Entry(1, 2), Entry(OutOfRange, 2), EntryNoScore(0),
     EntryBadScore(1), EntryBadScore(OutOfRange), EntryNoIndex(2)}

\* responses of the rerank call
RerankResponses ==
    {Failure("transport_error"), Failure("not_json"), Failure("no_results")}
    \cup {[kind |-> "ok", results |-> r] :
            r \in UNION {[1..n -> RerankEntries] : n \in 0..MaxEntries}}

\* replies of the chat-completions call of _explain_relevance
ExplainReplies ==
    {Failure("transport_error"), Failure("not_json"), Failure("bad_envelope"),
     Failure("null_content"), Content(<<" ", "x", NL>>), Content(<<" ">>)}

\* ---------------------------------------------------------------- events
StepEvent(step_id, status, payload) ==
    [type |-> "step", step_id |-> step_id, status |-> status, payload |-> payload]
ResultsEvent(results) == [type |-> "results", results |-> results]

\* lines 137-144
CandidatesPayload(cands) ==
    [i \in 1..Len(cands) |->
        [paper_id |-> cands[i].paper.paper_id, title |-> cands[i].paper.title,
         score |-> cands[i].retrieval_score]]

\* lines 161-167
RankingPayload(rk) ==
    [i \in 1..Len(rk) |->
        [paper_id |-> rk[i].paper.paper_id, score |-> rk[i].rerank_score]]

\* the explanation loop over the whole ranked list
ToExplainAll == ranked

\* line 178: ranked[:max_results]
ToExplain == Take(ranked, max_results)

Init ==
    /\ papers \in Corpora
    /\ query \in Queries
    /\ max_results \in 1..MaxTopK
    /\ pc = "init"
    /\ events = <<>>
    /\ expansions = <<>>
    /\ candidates = <<>>
    /\ ranked = <<>>
    /\ final_results = <<>>
    /\ raised = NoError
    /\ calls = <<>>
    /\ last_reply = NoReply
    /\ Constructed

\* a failure that sends the generator back to the expansion call
RaiseAndRetry(e) == pc' = "y_expand_started" /\ raised' = e

\* an exception leaves the generator: it ends, and the caller sees e
Raise(e) == pc' = "raised" /\ raised' = e

\* lines 106-114
Start ==
    /\ pc = "init"
    /\ IF Strip(query) = <<>>
       THEN Raise(ServiceError) /\ UNCHANGED events
       ELSE /\ events' = Append(events, StepEvent("expand", "started", <<>>))
            /\ pc' = "y_expand_started"
            /\ UNCHANGED raised
    /\ UNCHANGED <<papers, query, max_results, expansions, candidates, ranked,
                   final_results, calls, last_reply>>
    /\ UNCHANGED <<max_context_chars, ctx_vars>>

\* line 115: the call of _expand_query is issued
CallExpand ==
    /\ pc = "y_expand_started"
    /\ calls' = Append(calls, <<"expand">>)
    /\ pc' = "await_expand"
    /\ UNCHANGED <<papers, query, max_results, events, expansions, candidates,
                   ranked, final_results, raised, last_reply>>
    /\ UNCHANGED <<max_context_chars, ctx_vars>>

\* lines 115-122
ExpandReturns ==
    /\ pc = "await_expand"
    /\ \E reply \in ExpandReplies :
         LET r == ExpandQuery(query, reply) IN
         /\ last_reply' = reply
         /\ IF r.raised # NoError
            THEN Raise(r.raised) /\ UNCHANGED <<events, expansions>>
            ELSE /\ expansions' = r.value
                 /\ events' = Append(events,
                                 StepEvent("expand", "completed", r.value))
                 /\ pc' = "y_expand_completed"
                 /\ UNCHANGED raised
    /\ UNCHANGED <<papers, query, max_results, candidates, ranked,
                   final_results, calls>>
    /\ UNCHANGED <<max_context_chars, ctx_vars>>

\* lines 124-129
YieldRetrieveStarted ==
    /\ pc = "y_expand_completed"
    /\ events' = Append(events, StepEvent("retrieve", "started", <<>>))
    /\ pc' = "y_retrieve_started"
    /\ UNCHANGED <<papers, query, max_results, expansions, candidates, ranked,
                   final_results, raised, calls, last_reply>>
    /\ UNCHANGED <<max_context_chars, ctx_vars>>

\* lines 130-146
Retrieve ==
    /\ pc = "y_retrieve_started"
    /\ candidates' = RetrieveCandidates(papers, query, expansions,
                                        max_results * RetrievalFactor)
    /\ events' = Append(events, StepEvent("retrieve", "completed",
                                          CandidatesPayload(candidates')))
    /\ pc' = "y_retrieve_completed"
    /\ UNCHANGED <<papers, query, max_results, expansions, ranked,
                   final_results, raised, calls, last_reply>>
    /\ UNCHANGED <<max_context_chars, ctx_vars>>

\* lines 148-153
YieldRankStarted ==
    /\ pc = "y_retrieve_completed"
    /\ events' = Append(events, StepEvent("rank", "started", <<>>))
    /\ pc' = "y_rank_started"
    /\ UNCHANGED <<papers, query, max_results, expansions, candidates, ranked,
                   final_results, raised, calls, last_reply>>
    /\ UNCHANGED <<max_context_chars, ctx_vars>>

\* _rerank_candidates without the early return of lines 297-298
CallRerankAlways ==
    /\ pc = "y_rank_started"
    /\ calls' = Append(calls, <<"rerank", candidates>>)
    /\ pc' = "await_rank"
    /\ UNCHANGED <<papers, query, max_results, expansions, candidates, ranked,
                   events, final_results, raised, last_reply>>
    /\ UNCHANGED <<max_context_chars, ctx_vars>>

\* lines 154-169 and 297-298: no candidates, no call
\* lines 154 and 319-323: otherwise the rerank call is issued
CallRerank ==
    /\ pc = "y_rank_started"
    /\ IF candidates = <<>>
       THEN /\ ranked' = <<>>
            /\ events' = Append(events, StepEvent("rank", "completed", <<>>))
            /\ pc' = "y_rank_completed"
            /\ UNCHANGED calls
       ELSE /\ calls' = Append(calls, <<"rerank", candidates>>)
            /\ pc' = "await_rank"
            /\ UNCHANGED <<ranked, events>>
    /\ UNCHANGED <<papers, query, max_results, expansions, candidates,
                   final_results, raised, last_reply>>
    /\ UNCHANGED <<max_context_chars, ctx_vars>>

\* a rerank whose in-place sort reorders the index as well
RerankReturnsSortingIndex ==
    /\ pc = "await_rank"
    /\ \E response \in RerankResponses :
         LET r == RerankCandidates(candidates, response) IN
         /\ last_reply' = response
         /\ IF r.raised # NoError
            THEN Raise(r.raised) /\ UNCHANGED <<events, candidates, ranked, papers>>
            ELSE /\ ranked' = r.value
                 /\ candidates' = r.value
                 /\ papers' = IF Len(r.value) = Len(papers)
                               THEN [i \in 1..Len(papers) |-> r.value[i].paper]
                               ELSE papers
                 /\ events' = Append(events, StepEvent("rank", "completed",
                                                       RankingPayload(r.value)))
                 /\ pc' = "y_rank_completed"
                 /\ UNCHANGED raised
    /\ UNCHANGED <<query, max_results, expansions, final_results, calls>>
    /\ UNCHANGED <<max_context_chars, ctx_vars>>

\* lines 154-169 and 328-349; the sort is in place, so candidates and ranked
\* are the same list afterwards
RerankReturns ==
    /\ pc = "await_rank"
    /\ \E response \in RerankResponses :
         LET r == RerankCandidates(candidates, response) IN
         /\ last_reply' = response
         /\ IF r.raised # NoError
            THEN Raise(r.raised) /\ UNCHANGED <<events, candidates, ranked>>
            ELSE /\ ranked' = r.value
                 /\ candidates' = r.value
                 /\ events' = Append(events, StepEvent("rank", "completed",
                                                       RankingPayload(r.value)))
                 /\ pc' = "y_rank_completed"
                 /\ UNCHANGED raised
    /\ UNCHANGED <<papers, query, max_results, expansions, final_results, calls>>
    /\ UNCHANGED <<max_context_chars, ctx_vars>>

\* lines 171-176
YieldExplainStarted ==
    /\ pc = "y_rank_completed"
    /\ events' = Append(events, StepEvent("explain", "started", <<>>))
    /\ pc' = "y_explain_started"
    /\ UNCHANGED <<papers, query, max_results, expansions, candidates, ranked,
                   final_results, raised, calls, last_reply>>
    /\ UNCHANGED <<max_context_chars, ctx_vars>>

\* the last step event carrying the step_id of the stage before
ExplainCompletedMislabelled == StepEvent("rank", "completed", <<>>)

ExplainCompleted == StepEvent("explain", "completed", <<>>)

\* lines 177-179: the loop is entered; with nothing to explain it is left at
\* once (lines 191-196), otherwise the first explanation call is issued
BeginExplain ==
    /\ pc = "y_explain_started"
    /\ IF ToExplain = <<>>
       THEN /\ events' = Append(events, ExplainCompleted)
            /\ pc' = "y_explain_completed"
            /\ UNCHANGED calls
       ELSE /\ calls' = Append(calls, <<"explain", ToExplain[1].paper.paper_id>>)
            /\ pc' = "await_explain"
            /\ UNCHANGED events
    /\ UNCHANGED <<papers, query, max_results, expansions, candidates, ranked,
                   final_results, raised, last_reply>>
    /\ UNCHANGED <<max_context_chars, ctx_vars>>

\* lines 179-196: the explanation of ToExplain[Len(final_results) + 1] returns
ExplainReturns ==
    /\ pc = "await_explain"
    /\ \E reply \in ExplainReplies :
         LET r == ExplainRelevance(reply)
             match == ToExplain[Len(final_results) + 1]
             done == Len(final_results) + 1 = Len(ToExplain)
         IN
         /\ last_reply' = reply
         /\ IF r.raised # NoError
            THEN Raise(r.raised) /\ UNCHANGED <<events, final_results, calls>>
            ELSE /\ final_results' = Append(final_results,
                                            ResearchResult(match, r.value))
                 /\ UNCHANGED raised
                 /\ IF done
                    THEN /\ events' = Append(events, ExplainCompleted)
                         /\ pc' = "y_explain_completed"
                         /\ UNCHANGED calls
                    ELSE /\ calls' = Append(calls,
                              <<"explain",
                                ToExplain[Len(final_results) + 2].paper.paper_id>>)
                         /\ pc' = "await_explain"
                         /\ UNCHANGED events
    /\ UNCHANGED <<papers, query, max_results, expansions, candidates, ranked>>
    /\ UNCHANGED <<max_context_chars, ctx_vars>>

\* line 198
\* a generator that never hands over its results event
YieldResultsWithheld ==
    /\ pc = "y_explain_completed"
    /\ UNCHANGED vars

YieldResults ==
    /\ pc = "y_explain_completed"
    /\ events' = Append(events, ResultsEvent(final_results))
    /\ pc' = "y_results"
    /\ UNCHANGED <<papers, query, max_results, expansions, candidates, ranked,
                   final_results, raised, calls, last_reply>>
    /\ UNCHANGED <<max_context_chars, ctx_vars>>

\* the generator is resumed after its last yield and ends
Finish ==
    /\ pc = "y_results"
    /\ pc' = "done"
    /\ UNCHANGED <<papers, query, max_results, events, expansions, candidates,
                   ranked, final_results, raised, calls, last_reply>>
    /\ UNCHANGED <<max_context_chars, ctx_vars>>

Next ==
    \/ Start
    \/ CallExpand
    \/ ExpandReturns
    \/ YieldRetrieveStarted
    \/ Retrieve
    \/ YieldRankStarted
    \/ CallRerank
    \/ RerankReturns
    \/ YieldExplainStarted
    \/ BeginExplain
    \/ ExplainReturns
    \/ YieldResults
    \/ Finish

Spec == Init /\ [][Next]_vars

\* the steps that wait for something outside the generator: the caller's
\* next(), which resumes it after a yield, and the answer to a call
Resumptions ==
    \/ Start
    \/ CallExpand
    \/ ExpandReturns
    \/ YieldRetrieveStarted
    \/ YieldRankStarted
    \/ CallRerank
    \/ RerankReturns
    \/ YieldExplainStarted
    \/ BeginExplain
    \/ ExplainReturns
    \/ YieldResults
    \/ Finish

\* the step of Retrieve as seen on pc: the local retrieval, which has no
\* await in it, runs to its yield
RetrieveRuns == pc = "y_retrieve_started" /\ pc' = "y_retrieve_completed"

\* the run when every call that was issued is answered, by a reply or by a
\* failure, and the caller resumes the generator after every event
FairSpec ==
    Init /\ [][Next]_vars /\ WF_vars(Resumptions) /\ WF_pc(RetrieveRuns)

\* ===================================================== /research/discover
\* event_stream of discover_research_papers.  Its locals have the names of
\* stream_search's (expansions, candidates, ranked) and are kept in the same
\* variables; enriched is kept in final_results, top_k in max_results, and the
\* frames it has yielded in events.  raised records the exception its except
\* clause caught.  The service methods it awaits (expand_query,
\* retrieve_papers, rank_papers, explain_relevance) are not part of
\* services/research.py; their outcomes are taken from the specification.

MinQueryLength == 3

\* payload.top_k or 5
TopK(payload_top_k) == IF payload_top_k = None THEN DefaultTopK ELSE payload_top_k[1]

Frame(type, stage, data) == [type |-> type, stage |-> stage, data |-> data]
StatusFrame(stage) == Frame("status", stage, <<>>)

\* an except clause that yields nothing
ErrorFramesDropped(exc) == <<>>

\* lines 830-837: what the except clause yields
ErrorFrames(exc) == <<Frame("error", "error", exc)>>

\* ResearchPaper.to_summary(score=..., reason=...)
ToSummary(paper, score, reason) ==
    [paper_id |-> paper.paper_id, title |-> paper.title, summary |-> paper.summary,
     url |-> paper.url, score |-> score, reason |-> reason]

\* expand_query (section 4.1): an Expansion holding the query, or a failure
SvcExpandOutcomes(q) ==
    {Raised(ServiceError), Returned(<<Strip(q)>>), Returned(<<Strip(q), <<"a">>>>)}

\* first-seen entries of a list, by paper_id
RECURSIVE DedupById(_)
DedupById(s) ==
    IF s = <<>> THEN <<>>
    ELSE LET front == DedupById(SubSeq(s, 1, Len(s) - 1))
             last == s[Len(s)]
         IN IF \E i \in 1..Len(front) : front[i].paper_id = last.paper_id
            THEN front ELSE Append(front, last)

\* retrieve_papers (section 4.2): deduplicated matches, or a failure
SvcRetrieveOutcomes(corpus) ==
    {Raised(ServiceError)}
    \cup {Returned(DedupById(Take(corpus, n))) : n \in 0..Len(corpus)}

\* rank_papers (section 4.3): (paper, score) pairs in descending score order,
\* cut to top_k, or a failure
SvcRankOutcomes(cands, top_k) ==
    {Raised(ServiceError)}
    \cup {Returned(Take(SortDesc([i \in 1..Len(cands) |->
                                    [paper |-> cands[i], score |-> sc[i]]], sc),
                        top_k)) :
            sc \in [1..Len(cands) -> {1, 2}]}

\* explain_relevance (section 4.4): a justification, or a failure
SvcExplainOutcomes == {Raised(ServiceError), Returned(<<"x">>)}

CallOutcome(call, r) ==
    [kind |-> IF r.raised = NoError THEN "ok" ELSE "raised", call |-> call]

RouteInit ==
    /\ papers \in Corpora
    /\ query \in {q \in Queries : Len(q) >= MinQueryLength}
    /\ max_results \in {TopK(None)} \cup {TopK(Some(k)) : k \in 1..MaxTopK}
    /\ pc = "init"
    /\ events = <<>>
    /\ expansions = <<>>
    /\ candidates = <<>>
    /\ ranked = <<>>
    /\ final_results = <<>>
    /\ raised = NoError
    /\ calls = <<>>
    /\ last_reply = NoReply
    /\ Constructed

\* lines 830-837
RouteCatch(exc) ==
    /\ raised' = exc
    /\ events' = events \o ErrorFrames(exc)
    /\ pc' = "y_error"

\* lines 741-748
RouteStart ==
    /\ pc = "init"
    /\ events' = Append(events, StatusFrame("expanding_query"))
    /\ pc' = "y_status_expanding"
    /\ UNCHANGED <<papers, query, max_results, expansions, candidates, ranked,
                   final_results, raised, calls, last_reply>>
    /\ UNCHANGED <<max_context_chars, ctx_vars>>

\* lines 749-757
RouteExpand ==
    /\ pc = "y_status_expanding"
    /\ calls' = Append(calls, <<"expand">>)
    /\ \E r \in SvcExpandOutcomes(query) :
         /\ last_reply' = CallOutcome(<<"expand">>, r)
         /\ IF r.raised # NoError
            THEN RouteCatch(r.raised) /\ UNCHANGED expansions
            ELSE /\ expansions' = r.value
                 /\ events' = Append(events,
                                 Frame("expansion", "expanding_query", r.value))
                 /\ pc' = "y_expansion"
                 /\ UNCHANGED raised
    /\ UNCHANGED <<papers, query, max_results, candidates, ranked, final_results>>
    /\ UNCHANGED <<max_context_chars, ctx_vars>>

\* lines 759-765
RouteStatusRetrieving ==
    /\ pc = "y_expansion"
    /\ events' = Append(events, StatusFrame("retrieving_candidates"))
    /\ pc' = "y_status_retrieving"
    /\ UNCHANGED <<papers, query, max_results, expansions, candidates, ranked,
                   final_results, raised, calls, last_reply>>
    /\ UNCHANGED <<max_context_chars, ctx_vars>>

\* lines 766-774
RouteRetrieve ==
    /\ pc = "y_status_retrieving"
    /\ calls' = Append(calls, <<"retrieve">>)
    /\ \E r \in SvcRetrieveOutcomes(papers) :
         /\ last_reply' = CallOutcome(<<"retrieve">>, r)
         /\ IF r.raised # NoError
            THEN RouteCatch(r.raised) /\ UNCHANGED candidates
            ELSE /\ candidates' = r.value
                 /\ events' = Append(events,
                        Frame("retrieval", "retrieving_candidates", Len(r.value)))
                 /\ pc' = "y_retrieval"
                 /\ UNCHANGED raised
    /\ UNCHANGED <<papers, query, max_results, expansions, ranked, final_results>>
    /\ UNCHANGED <<max_context_chars, ctx_vars>>

\* lines 776-782
RouteStatusRanking ==
    /\ pc = "y_retrieval"
    /\ events' = Append(events, StatusFrame("ranking"))
    /\ pc' = "y_status_ranking"
    /\ UNCHANGED <<papers, query, max_results, expansions, candidates, ranked,
                   final_results, raised, calls, last_reply>>
    /\ UNCHANGED <<max_context_chars, ctx_vars>>

\* lines 783-798
RouteRank ==
    /\ pc = "y_status_ranking"
    /\ calls' = Append(calls, <<"rank">>)
    /\ \E r \in SvcRankOutcomes(candidates, max_results) :
         /\ last_reply' = CallOutcome(<<"rank">>, r)
         /\ IF r.raised # NoError
            THEN RouteCatch(r.raised) /\ UNCHANGED ranked
            ELSE /\ ranked' = r.value
                 /\ events' = Append(events,
                        Frame("ranking", "ranking",
                              [i \in 1..Len(r.value) |->
                                 ToSummary(r.value[i].paper, r.value[i].score, None)]))
                 /\ pc' = "y_ranking"
                 /\ UNCHANGED raised
    /\ UNCHANGED <<papers, query, max_results, expansions, candidates,
                   final_results>>
    /\ UNCHANGED <<max_context_chars, ctx_vars>>

\* lines 800-809 and 822-829: the loop takes the next ranked paper, or is over
RouteNextPaper ==
    /\ pc \in {"y_ranking", "y_explanation"}
    /\ IF Len(final_results) < Len(ranked)
       THEN /\ events' = Append(events,
                   Frame("status", "explaining",
                         ranked[Len(final_results) + 1].paper.paper_id))
            /\ pc' = "y_status_explaining"
       ELSE /\ events' = Append(events, Frame("results", "complete", final_results))
            /\ pc' = "y_results"
    /\ UNCHANGED <<papers, query, max_results, expansions, candidates, ranked,
                   final_results, raised, calls, last_reply>>
    /\ UNCHANGED <<max_context_chars, ctx_vars>>

\* the loop body putting each summary at the front of enriched
RouteExplainPrepending ==
    /\ pc = "y_status_explaining"
    /\ LET item == ranked[Len(final_results) + 1]
           call == <<"explain", item.paper.paper_id>>
       IN
       /\ calls' = Append(calls, call)
       /\ \E r \in SvcExplainOutcomes :
            /\ last_reply' = CallOutcome(call, r)
            /\ IF r.raised # NoError
               THEN RouteCatch(r.raised) /\ UNCHANGED final_results
               ELSE /\ final_results' =
                          <<ToSummary(item.paper, Some(item.score), Some(r.value))>>
                          \o final_results
                    /\ events' = Append(events,
                          Frame("explanation", "explaining",
                                [paper_id |-> item.paper.paper_id, reason |-> r.value]))
                    /\ pc' = "y_explanation"
                    /\ UNCHANGED raised
    /\ UNCHANGED <<papers, query, max_results, expansions, candidates, ranked>>
    /\ UNCHANGED <<max_context_chars, ctx_vars>>

\* lines 810-820
RouteExplain ==
    /\ pc = "y_status_explaining"
    /\ LET item == ranked[Len(final_results) + 1]
           call == <<"explain", item.paper.paper_id>>
       IN
       /\ calls' = Append(calls, call)
       /\ \E r \in SvcExplainOutcomes :
            /\ last_reply' = CallOutcome(call, r)
            /\ IF r.raised # NoError
               THEN RouteCatch(r.raised) /\ UNCHANGED final_results
               ELSE /\ final_results' = Append(final_results,
                          ToSummary(item.paper, Some(item.score), Some(r.value)))
                    /\ events' = Append(events,
                          Frame("explanation", "explaining",
                                [paper_id |-> item.paper.paper_id, reason |-> r.value]))
                    /\ pc' = "y_explanation"
                    /\ UNCHANGED raised
    /\ UNCHANGED <<papers, query, max_results, expansions, candidates, ranked>>
    /\ UNCHANGED <<max_context_chars, ctx_vars>>

\* line 839: the generator is resumed after its last yield and ends
RouteClose ==
    /\ pc \in {"y_results", "y_error"}
    /\ pc' = "closed"
    /\ UNCHANGED <<papers, query, max_results, events, expansions, candidates,
                   ranked, final_results, raised, calls, last_reply>>
    /\ UNCHANGED <<max_context_chars, ctx_vars>>

RouteNext ==
    \/ RouteStart
    \/ RouteExpand
    \/ RouteStatusRetrieving
    \/ RouteRetrieve
    \/ RouteStatusRanking
    \/ RouteRank
    \/ RouteNextPaper
    \/ RouteExplain
    \/ RouteClose

RouteSpec == RouteInit /\ [][RouteNext]_vars

\* ------------------------------------------------------ caller disconnects
\* When the caller goes away the server stops iterating event_stream: a
\* generator suspended at a yield is closed, which raises GeneratorExit at
\* that yield, and one suspended in an await is cancelled, which raises
\* CancelledError at that await.  Both derive from BaseException, not from
\* Exception.
CancelledError == "CancelledError"
GeneratorExit == "GeneratorExit"

\* a handler that catches every exception
CaughtByBareExcept(exc) == TRUE

\* line 830: what `except Exception` catches
CaughtByExceptException(exc) == exc \notin {CancelledError, GeneratorExit}

\* lines 741 and 830-837: exc is raised inside the try block
RouteThrow(exc) ==
    IF CaughtByExceptException(exc)
    THEN RouteCatch(exc)
    ELSE /\ raised' = exc
         /\ pc' = "closed"
         /\ UNCHANGED events

\* the yields inside the try block after which work is left to do
RouteYields ==
    {"y_status_expanding", "y_expansion", "y_status_retrieving", "y_retrieval",
     "y_status_ranking", "y_ranking", "y_status_explaining", "y_explanation"}

\* the generator is closed while suspended at a yield
RouteDisconnect ==
    /\ pc \in RouteYields
    /\ RouteThrow(GeneratorExit)
    /\ UNCHANGED <<papers, query, max_results, expansions, candidates, ranked,
                   final_results, calls, last_reply>>
    /\ UNCHANGED <<max_context_chars, ctx_vars>>

\* lines 749, 766, 783, 810: the call the generator issues when resumed here
RouteCallAt(at) ==
    CASE at = "y_status_expanding" -> <<"expand">>
      [] at = "y_status_retrieving" -> <<"retrieve">>
      [] at = "y_status_ranking" -> <<"rank">>
      [] at = "y_status_explaining" ->
           <<"explain", ranked[Len(final_results) + 1].paper.paper_id>>

\* the generator is cancelled while it awaits a service call
RouteCancelInFlight ==
    /\ pc \in {"y_status_expanding", "y_status_retrieving", "y_status_ranking",
                "y_status_explaining"}
    /\ calls' = Append(calls, RouteCallAt(pc))
    /\ last_reply' = [kind |-> "cancelled", call |-> RouteCallAt(pc)]
    /\ RouteThrow(CancelledError)
    /\ UNCHANGED <<papers, query, max_results, expansions, candidates, ranked,
                   final_results>>
    /\ UNCHANGED <<max_context_chars, ctx_vars>>

RouteCancelNext ==
    \/ RouteNext
    \/ RouteDisconnect
    \/ RouteCancelInFlight

RouteCancelSpec == RouteInit /\ [][RouteCancelNext]_vars

\* ======================================================== concurrent runs
\* Several stream_search generators on one service instance.  The instance
\* holds the index (papers); everything else is a local of a generator, so in
\* these specifications every variable but papers maps a run to the value it
\* has in that run, and last_reply[r] lists the replies run r has received.
\* A step takes one run from a suspension at an external call to its next
\* one, or to its end.

MaxRuns == 2        \* runs on one service instance
Runs == 1..MaxRuns

\* the locals of a generator that has not been resumed yet
NewRun(q, k) ==
    [query |-> q, max_results |-> k, pc |-> "init", events |-> <<>>,
     expansions |-> <<>>, candidates |-> <<>>, ranked |-> <<>>,
     final_results |-> <<>>, raised |-> NoError, calls |-> <<>>,
     last_reply |-> <<>>]

RunRaise(run, e) == [run EXCEPT !.pc = "raised", !.raised = e]

\* lines 106-115
RunStart(run) ==
    IF Strip(run.query) = <<>> THEN RunRaise(run, ServiceError)
    ELSE [run EXCEPT !.events = Append(@, StepEvent("expand", "started", <<>>)),
                     !.calls = Append(@, <<"expand">>),
                     !.pc = "await_expand"]

\* lines 178-198: the next explanation call, or the end of the loop
RunExplainLoop(run) ==
    LET todo == Take(run.ranked, run.max_results) IN
    IF Len(run.final_results) < Len(todo)
    THEN [run EXCEPT
            !.calls = Append(@, <<"explain",
                                  todo[Len(run.final_results) + 1].paper.paper_id>>),
            !.pc = "await_explain"]
    ELSE [run EXCEPT
            !.events = @ \o <<ExplainCompleted, ResultsEvent(run.final_results)>>,
            !.pc = "done"]

\* lines 155-177
RunRanked(run, rk) ==
    RunExplainLoop(
        [run EXCEPT !.ranked = rk, !.candidates = rk,
                    !.events = @ \o <<StepEvent("rank", "completed", RankingPayload(rk)),
                                      StepEvent("explain", "started", <<>>)>>])

\* lines 115-154
RunExpanded(run, corpus, reply) ==
    LET r == ExpandQuery(run.query, reply)
        cands == RetrieveCandidates(corpus, run.query, r.value,
                                    run.max_results * RetrievalFactor)
        retrieved ==
            [run EXCEPT
               !.expansions = r.value, !.candidates = cands,
               !.events = @ \o <<StepEvent("expand", "completed", r.value),
                                 StepEvent("retrieve", "started", <<>>),
                                 StepEvent("retrieve", "completed",
                                           CandidatesPayload(cands)),
                                 StepEvent("rank", "started", <<>>)>>]
    IN IF r.raised # NoError THEN RunRaise(run, r.raised)
       ELSE IF cands = <<>> THEN RunRanked(retrieved, <<>>)
       ELSE [retrieved EXCEPT !.calls = Append(@, <<"rerank", cands>>),
                              !.pc = "await_rank"]

\* lines 154-177
RunReranked(run, response) ==
    LET r == RerankCandidates(run.candidates, response) IN
    IF r.raised # NoError THEN RunRaise(run, r.raised) ELSE RunRanked(run, r.value)

\* lines 179-198
RunExplained(run, reply) ==
    LET r == ExplainRelevance(reply)
        match == Take(run.ranked, run.max_results)[Len(run.final_results) + 1]
    IN IF r.raised # NoError THEN RunRaise(run, r.raised)
       ELSE RunExplainLoop(
                [run EXCEPT !.final_results = Append(@, ResearchResult(match, r.value))])

\* the generator is resumed with the reply of the call it awaits
Resume(run, corpus, reply) ==
    LET got == [run EXCEPT !.last_reply = Append(@, reply)] IN
    CASE run.pc = "await_expand" -> RunExpanded(got, corpus, reply)
      [] run.pc = "await_rank" -> RunReranked(got, reply)
      [] run.pc = "await_explain" -> RunExplained(got, reply)
      [] OTHER -> run

\* a run alone on an instance with this index, given its replies in order
RECURSIVE ResumeAll(_, _, _)
ResumeAll(run, corpus, replies) ==
    IF replies = <<>> THEN run
    ELSE ResumeAll(Resume(run, corpus, Head(replies)), corpus, Tail(replies))

SoloRun(q, k, corpus, replies) == ResumeAll(RunStart(NewRun(q, k)), corpus, replies)

\* ---------------------------------------------------- inputs of the runs
\* the query of the second run matches both papers equally
ConcCorpus == <<PaperA, PaperB>>
ConcQueries == {<<"a">>, <<" ", "B", " ">>}
ConcCaps == {1, MaxTopK}
ConcExpandReplies == {Failure("transport_error"), Content(<<>>)}
ConcRerankResponses ==
    {Failure("no_results"), [kind |-> "ok", results |-> <<>>],
     [kind |-> "ok", results |-> <<Entry(1, 2)>>]}
ConcExplainReplies == {Failure("not_json"), Content(<<" ", "x", NL>>)}

RepliesAt(at) ==
    CASE at = "await_expand" -> ConcExpandReplies
      [] at = "await_rank" -> ConcRerankResponses
      [] at = "await_explain" -> ConcExplainReplies
      [] OTHER -> {}

\* the locals of run r
RunOf(r) ==
    [query |-> query[r], max_results |-> max_results[r], pc |-> pc[r],
     events |-> events[r], expansions |-> expansions[r],
     candidates |-> candidates[r], ranked |-> ranked[r],
     final_results |-> final_results[r], raised |-> raised[r],
     calls |-> calls[r], last_reply |-> last_reply[r]]

\* run r goes on with these locals; the other runs keep theirs
Store(r, run) ==
    /\ query' = [query EXCEPT ![r] = run.query]
    /\ max_results' = [max_results EXCEPT ![r] = run.max_results]
    /\ pc' = [pc EXCEPT ![r] = run.pc]
    /\ events' = [events EXCEPT ![r] = run.events]
    /\ expansions' = [expansions EXCEPT ![r] = run.expansions]
    /\ candidates' = [candidates EXCEPT ![r] = run.candidates]
    /\ ranked' = [ranked EXCEPT ![r] = run.ranked]
    /\ final_results' = [final_results EXCEPT ![r] = run.final_results]
    /\ raised' = [raised EXCEPT ![r] = run.raised]
    /\ calls' = [calls EXCEPT ![r] = run.calls]
    /\ last_reply' = [last_reply EXCEPT ![r] = run.last_reply]

ConcInit ==
    /\ papers = ConcCorpus
    /\ query \in [Runs -> ConcQueries]
    /\ max_results \in [Runs -> ConcCaps]
    /\ pc = [r \in Runs |-> "init"]
    /\ events = [r \in Runs |-> <<>>]
    /\ expansions = [r \in Runs |-> <<>>]
    /\ candidates = [r \in Runs |-> <<>>]
    /\ ranked = [r \in Runs |-> <<>>]
    /\ final_results = [r \in Runs |-> <<>>]
    /\ raised = [r \in Runs |-> NoError]
    /\ calls = [r \in Runs |-> <<>>]
    /\ last_reply = [r \in Runs |-> <<>>]
    /\ Constructed

\* lines 101-115: the first resumption of generator r
ConcStart(r) ==
    /\ pc[r] = "init"
    /\ Store(r, RunStart(RunOf(r)))
    /\ UNCHANGED papers
    /\ UNCHANGED <<max_context_chars, ctx_vars>>

\* a resumption that finds the candidate list of the first run
ConcResumeSharedList(r) ==
    /\ RepliesAt(pc[r]) # {}
    /\ \E reply \in RepliesAt(pc[r]) :
          Store(r, Resume([RunOf(r) EXCEPT !.candidates = candidates[1]],
                          papers, reply))
    /\ UNCHANGED papers
    /\ UNCHANGED <<max_context_chars, ctx_vars>>

\* a resumption whose sorts of the candidates reorder the index itself
ConcResumeSortingIndex(r) ==
    /\ RepliesAt(pc[r]) # {}
    /\ \E reply \in RepliesAt(pc[r]) :
          LET run == Resume(RunOf(r), papers, reply) IN
          /\ Store(r, run)
          /\ papers' = IF Len(run.candidates) = Len(papers)
                        THEN [i \in 1..Len(papers) |-> run.candidates[i].paper]
                        ELSE papers
    /\ UNCHANGED <<max_context_chars, ctx_vars>>

\* lines 115-198: generator r is resumed with the reply of the call it awaits
ConcResume(r) ==
    /\ RepliesAt(pc[r]) # {}
    /\ \E reply \in RepliesAt(pc[r]) : Store(r, Resume(RunOf(r), papers, reply))
    /\ UNCHANGED papers
    /\ UNCHANGED <<max_context_chars, ctx_vars>>

ConcNext == \E r \in Runs : ConcStart(r) \/ ConcResume(r)

\* runs interleaved at their external calls
ConcSpec == ConcInit /\ [][ConcNext]_vars

Ended(r) == pc[r] \in {"done", "raised"}

\* one run after the other
RerunNext ==
    \E r \in Runs :
        /\ \A o \in Runs : o < r => Ended(o)
        /\ (ConcStart(r) \/ ConcResume(r))

RerunSpec == ConcInit /\ [][RerunNext]_vars

\* ============================== /research/discover on the service of src/
\* the public methods of ResearchDiscoveryService as src/ has it, which are
\* also the methods of the stub that tests/test_research_route.py injects
ServiceMethods == {"stream_search"}

\* getattr(service, name): a missing attribute raises AttributeError
GetAttr(name) ==
    IF name \in ServiceMethods THEN Returned(name) ELSE Raised(AttributeError)

\* what StubResearchService.stream_search yields (test lines 13-41)
StubEvents ==
    << StepEvent("expand", "started", <<"test expansion">>),
       StepEvent("expand", "completed", <<"test expansion">>),
       ResultsEvent(<< [paper_id |-> "1234.56789", relevance |-> 95] >>) >>

\* routes.py line 749 with that service: the attribute lookup of
\* service.expand_query comes before the call, and its AttributeError is
\* caught by the handler of line 830
RouteExpandOnService ==
    /\ pc = "y_status_expanding"
    /\ LET method == GetAttr("expand_query") IN
         IF method.raised # NoError
         THEN /\ RouteCatch(method.raised)
              /\ UNCHANGED <<calls, last_reply, expansions>>
         ELSE /\ calls' = Append(calls, <<"expand">>)
              /\ \E r \in SvcExpandOutcomes(query) :
                   /\ last_reply' = CallOutcome(<<"expand">>, r)
                   /\ IF r.raised # NoError
                      THEN RouteCatch(r.raised) /\ UNCHANGED expansions
                      ELSE /\ expansions' = r.value
                           /\ events' = Append(events,
                                  Frame("expansion", "expanding_query", r.value))
                           /\ pc' = "y_expansion"
                           /\ UNCHANGED raised
    /\ UNCHANGED <<papers, query, max_results, candidates, ranked, final_results>>
    /\ UNCHANGED <<max_context_chars, ctx_vars>>

RouteOnServiceNext ==
    \/ RouteStart
    \/ RouteExpandOnService
    \/ RouteClose

RouteOnServiceSpec == RouteInit /\ [][RouteOnServiceNext]_vars

\* ============================================================ ContextStorage
MaxClock == 2      \* the clock's last reading
MaxTtl == 1        \* the largest ttl a storage is constructed with

SessionIds == {"s1", "s2"}

\* a VisionContext, of which the storage reads only the timestamp
VisionContext(description, timestamp) ==
    [description |-> description, timestamp |-> timestamp]

\* the contexts a caller stores: stamped by the caller, at any time
Contexts == {VisionContext(d, t) : d \in SessionIds, t \in 0..MaxClock}

\* an expiry test that lets every context live
ExpiredNever(context, at) == FALSE

\* lines 33, 47 and 71: now - context.timestamp > self._ttl
Expired(context, at) == at - context.timestamp > ttl

Keys(dict) == {dict[i].session_id : i \in 1..Len(dict)}

\* dict.get
Lookup(dict, session_id) ==
    IF session_id \in Keys(dict)
    THEN Some((CHOOSE i \in 1..Len(dict) : dict[i].session_id = session_id))
    ELSE None

\* dict[session_id] = context: a key already present keeps its place
SetItem(dict, session_id, context) ==
    LET at == Lookup(dict, session_id)
        item == [session_id |-> session_id, context |-> context]
    IN IF at = None THEN Append(dict, item) ELSE [dict EXCEPT ![at[1]] = item]

\* del dict[k] for every k of keys
DelItems(dict, keys) == SelectSeq(dict, LAMBDA item : item.session_id \notin keys)

ExpiredSessions(dict, at) ==
    {dict[i].session_id : i \in {j \in 1..Len(dict) : Expired(dict[j].context, at)}}

\* lines 43-54: the scan over the entries, in the dict's order
RECURSIVE LatestOf(_, _, _)
LatestOf(dict, at, latest) ==
    IF dict = <<>> THEN latest
    ELSE LET context == Head(dict).context IN
         IF Expired(context, at) THEN LatestOf(Tail(dict), at, latest)
         ELSE IF latest = None \/ context.timestamp > latest[1].timestamp
              THEN LatestOf(Tail(dict), at, Some(context))
              ELSE LatestOf(Tail(dict), at, latest)

\* the storage as constructed, beside a research service that is not running
CtxInit ==
    /\ storage = <<>>
    /\ ttl \in 0..MaxTtl
    /\ now = 0
    /\ latest_context = None
    /\ papers = <<PaperA>>
    /\ query = <<>>
    /\ max_results = DefaultTopK
    /\ pc = "constructed"
    /\ events = <<>>
    /\ expansions = <<>>
    /\ candidates = <<>>
    /\ ranked = <<>>
    /\ final_results = <<>>
    /\ raised = NoError
    /\ calls = <<>>
    /\ last_reply = NoReply
    /\ max_context_chars = DefaultMaxContextChars

\* pc tells whether the operation that returned last was get_latest_context

\* what no operation of the storage touches
research_vars == <<papers, query, max_results, events, expansions, candidates,
                   ranked, final_results, raised, calls, max_context_chars>>

\* lines 20-23
store_context ==
    /\ \E session_id \in SessionIds, context \in Contexts :
          storage' = SetItem(storage, session_id, context)
    /\ pc' = "returned"
    /\ UNCHANGED <<ttl, now, latest_context, last_reply, research_vars>>

\* lines 25-37; the value returned is kept in last_reply
get_context ==
    /\ \E session_id \in SessionIds :
          LET at == Lookup(storage, session_id) IN
          IF at = None
          THEN /\ last_reply' = [kind |-> "context", value |-> None]
               /\ UNCHANGED storage
          ELSE IF Expired(storage[at[1]].context, now)
          THEN /\ storage' = DelItems(storage, {session_id})
               /\ last_reply' = [kind |-> "context", value |-> None]
          ELSE /\ last_reply' = [kind |-> "context",
                                 value |-> Some(storage[at[1]].context)]
               /\ UNCHANGED storage
    /\ pc' = "returned"
    /\ UNCHANGED <<ttl, now, latest_context, research_vars>>

\* lines 39-58
get_latest_context ==
    /\ latest_context' = LatestOf(storage, now, None)
    /\ storage' = DelItems(storage, ExpiredSessions(storage, now))
    /\ pc' = "get_latest_context"
    /\ UNCHANGED <<ttl, now, last_reply, research_vars>>

\* lines 60-63
clear_context ==
    /\ \E session_id \in SessionIds :
          storage' = DelItems(storage, {session_id})
    /\ pc' = "returned"
    /\ UNCHANGED <<ttl, now, latest_context, last_reply, research_vars>>

\* lines 65-74
clear_expired ==
    /\ storage' = DelItems(storage, ExpiredSessions(storage, now))
    /\ pc' = "returned"
    /\ UNCHANGED <<ttl, now, latest_context, last_reply, research_vars>>

\* time passes between two operations
Tick ==
    /\ now < MaxClock
    /\ now' = now + 1
    /\ pc' = "returned"
    /\ UNCHANGED <<storage, ttl, latest_context, last_reply, research_vars>>

CtxNext ==
    \/ store_context
    \/ get_context
    \/ get_latest_context
    \/ clear_context
    \/ clear_expired
    \/ Tick

CtxSpec == CtxInit /\ [][CtxNext]_vars

\* ========================================= retrieval on an index that is cut
MaxIndex == 5      \* entries of the larger index

\* the texts of the larger index's entries: (title, summary)
DocKinds == { <<<<"a">>, <<>>>>, <<<<"a">>, <<"b">>>>, <<<<"c">>, <<>>>> }

IndexPaper(i, kind) ==
    [paper_id |-> ToString(i), title |-> kind[1], summary |-> kind[2],
     url |-> "u", published |-> ""]

\* indexes of MaxIndex entries, more than the smallest limit lets through
LargeCorpora ==
    {[i \in 1..MaxIndex |-> IndexPaper(i, kinds[i])] : kinds \in [1..MaxIndex -> DocKinds]}

RetrieveInit ==
    /\ papers \in LargeCorpora
    /\ query = <<"a">>
    /\ max_results = 1
    /\ pc = "init"
    /\ events = <<>>
    /\ expansions = <<>>
    /\ candidates = <<>>
    /\ ranked = <<>>
    /\ final_results = <<>>
    /\ raised = NoError
    /\ calls = <<>>
    /\ last_reply = NoReply
    /\ Constructed

\* stream_search up to the retrieve-completed event (lines 101-146)
RetrieveNext ==
    \/ Start
    \/ CallExpand
    \/ ExpandReturns
    \/ YieldRetrieveStarted
    \/ Retrieve

RetrieveSpec == RetrieveInit /\ [][RetrieveNext]_vars

\* ===================================== the documents of the rerank request
MaxContextChars == 3     \* the largest budget a service is constructed with

Ellipsis == "..."        \* the one character U+2026

\* lines 392-395
ClipDocument(document) ==
    IF Len(document) <= max_context_chars THEN document
    ELSE Append(Take(document, max_context_chars), Ellipsis)

\* lines 303-313: the documents of the request for the candidates cands
RerankDocuments(cands) ==
    [i \in 1..Len(cands) |->
        [id |-> cands[i].paper.paper_id,
         text |-> ClipDocument(ToDocument(cands[i].paper)),
         metadata |-> [title |-> cands[i].paper.title, url |-> cands[i].paper.url]]]

\* a service constructed with a budget of a few characters
ClipInit ==
    /\ papers \in Corpora
    /\ query = <<"a">>
    /\ max_results = 1
    /\ pc = "init"
    /\ events = <<>>
    /\ expansions = <<>>
    /\ candidates = <<>>
    /\ ranked = <<>>
    /\ final_results = <<>>
    /\ raised = NoError
    /\ calls = <<>>
    /\ last_reply = NoReply
    /\ max_context_chars \in 1..MaxContextChars
    /\ storage = <<>>
    /\ ttl = DefaultTtlMinutes
    /\ now = 0
    /\ latest_context = None

\* stream_search up to the rerank request (lines 101-156)
ClipNext ==
    \/ Start
    \/ CallExpand
    \/ ExpandReturns
    \/ YieldRetrieveStarted
    \/ Retrieve
    \/ YieldRankStarted
    \/ CallRerank

ClipSpec == ClipInit /\ [][ClipNext]_vars

\* ================================================================ claims
IndicesOfType(t) == {i \in 1..Len(events) : events[i].type = t}

\* ------------------------------------------------------------------- C1
\* C1: in every run of event_stream in which an awaited stage call fails, the
\* frames yielded hold exactly one error frame, the error frame is the last
\* frame, and the result frame of the failed stage was not yielded: no
\* expansion / retrieval / ranking frame when that stage failed, and, when an
\* explanation call failed, neither an explanation frame for its paper nor a
\* results frame.  Holding in every reachable state, it also says that no
\* frame follows the error frame.
C1_SingleFinalError ==
    raised # NoError =>
        /\ Cardinality(IndicesOfType("error")) = 1
        /\ events[Len(events)].type = "error"
        /\ LET failed == last_reply.call IN
           CASE failed[1] = "expand" -> IndicesOfType("expansion") = {}
             [] failed[1] = "retrieve" -> IndicesOfType("retrieval") = {}
             [] failed[1] = "rank" -> IndicesOfType("ranking") = {}
             [] OTHER ->
                  /\ IndicesOfType("results") = {}
                  /\ \A i \in IndicesOfType("explanation") :
                        events[i].data.paper_id # failed[2]

\* the second explanation call failed, and the stream was closed after it
C1_Witness ==
    /\ raised # NoError
    /\ pc = "closed"
    /\ last_reply.call[1] = "explain"
    /\ Cardinality(IndicesOfType("explanation")) = 1

\* ------------------------------------------------------------------- C2
\* the step events and the results event of a complete run, in order
StageOrder ==
    << <<"expand", "started">>, <<"expand", "completed">>,
       <<"retrieve", "started">>, <<"retrieve", "completed">>,
       <<"rank", "started">>, <<"rank", "completed">>,
       <<"explain", "started">>, <<"explain", "completed">>,
       <<"results">> >>

Signature(e) == IF e.type = "step" THEN <<e.step_id, e.status>> ELSE <<e.type>>

\* a reply the helper that awaited it can use: a body of the expected shape,
\* and for the rerank call entries that all hold an index and a numeric or
\* absent score
Usable(reply) ==
    /\ reply.kind = "ok"
    /\ "results" \in DOMAIN reply =>
         \A i \in 1..Len(reply.results) :
            reply.results[i].has_index /\ reply.results[i].score_kind # "bad"

\* C2: the events stream_search yields are, at every moment, a prefix of
\* expand started/completed, retrieve started/completed, rank
\* started/completed, explain started/completed, results; so the first event
\* is of the expand stage, no stage's events come twice or out of order and
\* there is no error event.  A run of a non-blank query ends by raising only
\* when the reply of its latest external call was not usable, and a run that
\* ended without raising has yielded the whole sequence, its last event being
\* the one results event.
C2_StageOrder ==
    /\ Len(events) <= Len(StageOrder)
    /\ \A i \in 1..Len(events) : Signature(events[i]) = StageOrder[i]
    /\ pc = "raised" => (Strip(query) = <<>> \/ ~Usable(last_reply))
    /\ pc \in {"y_results", "done"} =>
          /\ Len(events) = Len(StageOrder)
          /\ raised = NoError

\* a run with two explanations has ended
C2_Witness ==
    /\ pc = "done"
    /\ Len(final_results) = 2
    /\ Len(calls) = 4

\* ------------------------------------------------------------------- C3
RankCompleted == {i \in 1..Len(events) :
                     events[i].type = "step" /\ Signature(events[i]) = <<"rank", "completed">>}

NonIncreasing(scores) ==
    \A i \in 1..Len(scores) : \A j \in 1..Len(scores) :
        i < j => scores[i] >= scores[j]

\* C3: once the rerank stage has completed, the rerank scores of the ranked
\* list, and of the ranking reported in the rank event, are non-increasing
\* in list order; the part of the ranked list handed on to the explanation
\* loop, ranked[:max_results], and with it the final results list, has at most
\* max_results entries; and the first final result has a score no smaller
\* than that of any ranked candidate.
C3_SortedAndCapped ==
    RankCompleted # {} =>
        /\ NonIncreasing([i \in 1..Len(ranked) |-> ScoreOrZero(ranked[i].rerank_score)])
        /\ \A e \in RankCompleted :
              NonIncreasing([i \in 1..Len(events[e].payload) |->
                               ScoreOrZero(events[e].payload[i].score)])
        /\ Len(ToExplain) <= max_results
        /\ Len(final_results) <= max_results
        /\ \A i \in IndicesOfType("results") : Len(events[i].results) <= max_results
        /\ final_results # <<>> =>
              \A e \in RankCompleted : \A i \in 1..Len(events[e].payload) :
                 ScoreOrZero(events[e].payload[i].score) <= final_results[1].relevance

\* the response ranked the second candidate above the first, more candidates
\* were ranked than the cap allows, and the results were yielded
C3_Witness ==
    /\ pc = "y_results"
    /\ Len(ranked) > max_results
    /\ ranked[1].retrieval_score < ranked[2].retrieval_score
    /\ ScoreOrZero(ranked[1].rerank_score) > ScoreOrZero(ranked[2].rerank_score)

\* ------------------------------------------------------------------- C4
\* C4: the candidate list retrieval returns never holds two entries with the
\* same paper_id.
C4_NoDuplicateIds ==
    \A i \in 1..Len(candidates) : \A j \in 1..Len(candidates) :
        i # j => candidates[i].paper.paper_id # candidates[j].paper.paper_id

\* ------------------------------------------------------------------- C5
\* the expansion call has returned and last_reply is its reply
ExpandReplied ==
    /\ calls = << <<"expand">> >>
    /\ pc \in {"raised", "y_expand_completed", "y_retrieve_started",
               "y_retrieve_completed", "y_rank_started"}

Filler(content) == \A i \in 1..Len(content) : content[i] \in {"-", " ", NL}

\* the body of a reply cannot be read
Unparsable(reply) == reply.kind \in {"not_json", "bad_envelope", "null_content"}

\* the run goes on to the retrieval stage
ContinuesToRetrieval ==
    /\ raised = NoError
    /\ pc \in {"y_expand_completed", "y_retrieve_started", "y_retrieve_completed",
               "y_rank_started"}
    /\ pc = "y_expand_completed" => ENABLED YieldRetrieveStarted

HasResults == last_reply.kind = "ok" /\ "results" \in DOMAIN last_reply

\* the list that was submitted to the rerank service
Submitted == IF Len(calls) >= 2 THEN calls[2][2] ELSE <<>>

WellFormed(entry) == entry.has_index /\ entry.score_kind = "num"

\* the score the response holds for position p (0-based): that of its last
\* entry with index p, zero if that entry has no numeric score or there is none
ScoreFor(results, p) ==
    LET hits == {k \in 1..Len(results) : results[k].has_index /\ results[k].index = p}
    IN IF hits = {} THEN 0
       ELSE LET last == CHOOSE k \in hits : \A m \in hits : m <= k IN
            IF results[last].score_kind = "num" THEN results[last].score ELSE 0

Perms(n) == {f \in [1..n -> 1..n] : \A i \in 1..n : \A j \in 1..n : i # j => f[i] # f[j]}

\* ranked holds the submitted candidates, each with the score of its position
ScoresApplied(results) ==
    LET expected == [p \in 1..Len(Submitted) |->
                       [Submitted[p] EXCEPT
                          !.rerank_score = Some(ScoreFor(results, p - 1))]]
    IN /\ Len(ranked) = Len(expected)
       /\ \E f \in Perms(Len(ranked)) :
             \A k \in 1..Len(ranked) : ranked[k] = expected[f[k]]

AllParse(results) ==
    \A i \in 1..Len(results) : results[i].has_index /\ results[i].score_kind # "bad"

InRange(results, n) ==
    SelectSeq(results, LAMBDA entry : entry.index \in 0..(n - 1))

C9_StableTies ==
    RankCompleted # {} =>
        /\ Len(ranked) = Len(Submitted)
        /\ \E f \in Perms(Len(ranked)) :
              /\ \A k \in 1..Len(ranked) :
                    /\ ranked[k].paper = Submitted[f[k]].paper
                    /\ ranked[k].retrieval_score = Submitted[f[k]].retrieval_score
              /\ \A i \in 1..Len(ranked) : \A j \in 1..Len(ranked) :
                    (i < j /\ ScoreOrZero(ranked[i].rerank_score)
                               = ScoreOrZero(ranked[j].rerank_score))
                    => f[i] < f[j]

\* two different papers were given the same score by the response
C9_Witness ==
    /\ HasResults
    /\ pc = "y_rank_completed"
    /\ last_reply.results = <<Entry(1, 1), Entry(0, 1)>>
    /\ Len(ranked) = 2
    /\ ranked[1].paper # ranked[2].paper

\* ------------------------------------------------------------------ C10
RetrieveCompleted == {i \in 1..Len(events) :
                         events[i].type = "step"
                         /\ Signature(events[i]) = <<"retrieve", "completed">>}

\* C10: the results list of a results event has exactly
\* min(max_results, number of ranked candidates) entries, where every
\* retrieved candidate is ranked and carries a rerank score.
C10_ResultCount ==
    \A i \in IndicesOfType("results") :
        /\ Len(events[i].results) = Min(max_results, Len(ranked))
        /\ \A e \in RetrieveCompleted : Len(ranked) = Len(events[e].payload)
        /\ \A k \in 1..Len(ranked) : ranked[k].rerank_score # None

\* a run that ranked more candidates than the cap has ended
C10_Witness ==
    /\ pc = "done"
    /\ max_results = 1
    /\ Len(ranked) = 2
    /\ Len(events[Len(events)].results) = 1

\* ------------------------------------------------------------------ C11
\* retrieval has completed without a candidate
RetrievedNothing == RetrieveCompleted # {} /\ candidates = <<>>

\* C11: when retrieval returns no candidate, the run cannot fail and makes no
\* further external call: it yields the retrieve, rank and explain events in
\* order, each with an empty payload, every suspended state has a next step,
\* and the run ends with a results event whose list is empty.
C11_EmptyRetrievalCompletes ==
    RetrievedNothing =>
        /\ pc # "raised" /\ raised = NoError
        /\ calls = << <<"expand">> >>
        /\ pc # "done" => ENABLED Next
        /\ \A i \in 4..Len(events) :
              /\ Signature(events[i]) = StageOrder[i]
              /\ events[i].type = "step" => events[i].payload = <<>>
              /\ events[i].type = "results" => events[i].results = <<>>
        /\ pc \in {"y_results", "done"} => events[Len(events)] = ResultsEvent(<<>>)

\* a run over an index that holds no match for the query has ended
C11_Witness ==
    /\ RetrievedNothing
    /\ pc = "done"
    /\ Len(events) = Len(StageOrder)
    /\ events[Len(events)] = ResultsEvent(<<>>)

\* ------------------------------------------------------------------ C12
\* C12: for a query that is empty after trimming whitespace, no event is ever
\* emitted and no external call is ever issued.
C12_BlankRejected ==
    Strip(query) = <<>> => (events = <<>> /\ calls = <<>>)

\* ------------------------------------------------------------------ C13
ExplainCalls == {i \in 1..Len(calls) : calls[i][1] = "explain"}

\* the latest call is an explanation call and its reply was a failure
ExplainFailed ==
    /\ calls # <<>>
    /\ calls[Len(calls)][1] = "explain"
    /\ last_reply.kind # "ok"

\* C13: when the explanation call for the candidate at rank i fails, the run
\* has raised and takes no further step; no explain-completed and no results
\* event was yielded; the failed call is the last call, so no explanation was
\* asked for a candidate ranked after i; and the results gathered so far are
\* those of the i-1 candidates ranked before it, each with the justification
\* its own call returned.
C13_ExplainFailureIsFatal ==
    ExplainFailed =>
        /\ pc = "raised" /\ raised # NoError
        /\ ~ENABLED Next
        /\ IndicesOfType("results") = {}
        /\ \A i \in 1..Len(events) : Signature(events[i]) # <<"explain", "completed">>
        /\ Cardinality(ExplainCalls) = Len(final_results) + 1
        /\ Len(final_results) < Len(ToExplain)
        /\ calls[Len(calls)][2] = ToExplain[Len(final_results) + 1].paper.paper_id
        /\ \A k \in 1..Len(final_results) :
              /\ final_results[k].paper_id = ToExplain[k].paper.paper_id
              /\ final_results[k].justification \in
                    {Strip(reply.content) : reply \in {r \in ExplainReplies : r.kind = "ok"}}

\* the explanation of the first of two ranked candidates failed
C13_Witness ==
    /\ ExplainFailed
    /\ pc = "raised"
    /\ Len(ToExplain) = 2
    /\ final_results = <<>>

\* ------------------------------------------------------------------ C14
\* the paper_ids of a list of records, in order
Ids(seq) == [i \in 1..Len(seq) |-> seq[i].paper_id]

\* the data of the frames of type t, in the order they were yielded
RECURSIVE FramesOfType(_, _)
FramesOfType(frames, t) ==
    IF frames = <<>> THEN <<>>
    ELSE LET rest == FramesOfType(Tail(frames), t) IN
         IF Head(frames).type = t THEN <<Head(frames).data>> \o rest ELSE rest

RankedIds == [i \in 1..Len(ranked) |-> ranked[i].paper.paper_id]

CallsOfKind(kind) == {i \in 1..Len(calls) : calls[i][1] = kind}

\* C15: the calls a run has issued are, in order, at most one expansion call,
\* at most one rerank call and at most one explanation call per candidate of
\* ranked[:max_results], the k-th of them for the candidate at rank k.  A
\* reply its helper cannot use ends the run: the run has raised, the failed
\* call is the last one issued and no further step is taken.
C15_NoCallReissued ==
    /\ Cardinality(CallsOfKind("expand")) <= 1
    /\ Cardinality(CallsOfKind("rerank")) <= 1
    /\ Cardinality(CallsOfKind("explain")) <= Len(ToExplain)
    /\ \A i \in 1..Len(calls) :
          CASE i = 1 -> calls[i] = <<"expand">>
            [] i = 2 -> calls[i][1] = "rerank"
            [] OTHER -> calls[i] = <<"explain", ToExplain[i - 2].paper.paper_id>>
    /\ (last_reply # NoReply /\ ~Usable(last_reply)) =>
          /\ pc = "raised" /\ raised # NoError
          /\ ~ENABLED Next
    /\ raised # NoError => (pc = "raised" /\ ~ENABLED Next)

\* the second explanation call failed after three calls that succeeded
C15_Witness ==
    /\ pc = "raised"
    /\ Len(calls) = 4
    /\ ~Usable(last_reply)
    /\ Len(final_results) = 1

\* ------------------------------------------------------------------ C16
\* C16: of the runs made one after the other on one service instance, any two
\* with the same query and the same cap that have received the same replies
\* have yielded the same events, stand at the same point and have raised the
\* same exception or none.
C16_RerunIdentical ==
    \A r1 \in Runs : \A r2 \in Runs :
        (/\ pc[r1] # "init" /\ pc[r2] # "init"
         /\ query[r1] = query[r2]
         /\ max_results[r1] = max_results[r2]
         /\ last_reply[r1] = last_reply[r2]) =>
            /\ events[r1] = events[r2]
            /\ pc[r1] = pc[r2]
            /\ raised[r1] = raised[r2]

\* the second run, started after the first had ended, has ended with the
\* same replies; both reranked two candidates and explained them
C16_Witness ==
    /\ pc[1] = "done" /\ pc[2] = "done"
    /\ query[1] = query[2] /\ max_results[1] = max_results[2]
    /\ last_reply[1] = last_reply[2]
    /\ Len(final_results[2]) = 2
    /\ ranked[2][1].paper = papers[2]

\* ------------------------------------------------------------------ C17
\* the entries of the index a record agrees with on paper_id, title and url
SourcesOf(rec) ==
    {j \in 1..Len(papers) :
        /\ papers[j].paper_id = rec.paper_id
        /\ papers[j].title = rec.title
        /\ papers[j].url = rec.url}

\* C17: every candidate, retrieved or ranked, carries an entry of the index
\* as it stands there, with the retrieval score computed for that entry (the
\* one reported with its paper_id and title when retrieval completed); the
\* k-th final result has the paper_id, title, url, summary and published of
\* the entry carried by the k-th ranked candidate, so it agrees with an
\* entry of the index on paper_id, title and url, and the ranking event
\* lists the same paper_id at position k; different results come from
\* different entries of the index.
C17_FieldsPreserved ==
    /\ \A k \in 1..Len(candidates) : \E j \in 1..Len(papers) :
           candidates[k].paper = papers[j]
    /\ pc = "y_retrieve_completed" =>
          candidates = RetrieveCandidates(papers, query, expansions,
                                          max_results * RetrievalFactor)
    /\ \A e \in RetrieveCompleted :
          {<<candidates[k].paper.paper_id, candidates[k].paper.title,
             candidates[k].retrieval_score>> : k \in 1..Len(candidates)}
          = {<<events[e].payload[k].paper_id, events[e].payload[k].title,
               events[e].payload[k].score>> : k \in 1..Len(events[e].payload)}
    /\ \A k \in 1..Len(final_results) :
          LET paper == ToExplain[k].paper
              result == final_results[k]
          IN /\ result.paper_id = paper.paper_id
             /\ result.title = paper.title
             /\ result.url = paper.url
             /\ result.summary = paper.summary
             /\ result.published = paper.published
             /\ SourcesOf(result) # {}
             /\ \A e \in RankCompleted : events[e].payload[k].paper_id = result.paper_id
             /\ \A m \in 1..Len(final_results) :
                   m # k => SourcesOf(final_results[m]) # SourcesOf(result)
    /\ \A i \in IndicesOfType("results") : events[i].results = final_results

\* two results were yielded, in the reverse of the order of the index, the
\* first of them with a title in upper case
C17_Witness ==
    /\ pc = "y_results"
    /\ Len(final_results) = 2
    /\ SourcesOf(final_results[1]) = {2}
    /\ SourcesOf(final_results[2]) = {1}
    /\ final_results[2].title = <<"A">>

\* ------------------------------------------------------------------ C18
\* C18: no step of a run changes the index: the list of papers, its order
\* and every field of every paper are after the step what they were before
\* it.  (The candidates carry the papers of the index; the steps write the
\* rerank_score of a candidate and reorder the candidate list, never a
\* paper or the index.)
C18_CorpusUnchanged == [][papers' = papers]_vars

\* a run has ended whose ranked list is the index in reverse order, with
\* scores assigned
C18_Witness ==
    /\ pc = "done"
    /\ Len(papers) = 2 /\ Len(ranked) = 2
    /\ ranked[1].paper = papers[2] /\ ranked[2].paper = papers[1]
    /\ ranked[1].rerank_score = Some(2)

\* ------------------------------------------------------------------ C19
\* C19: however the runs on one instance are interleaved at their external
\* calls, every run that has started is where a run alone on the instance
\* would be after the same replies: it has yielded the same events, issued
\* the same calls, and holds the same expansions, candidates, ranked list
\* with its scores and order, and results.
C19_RunsIsolated ==
    \A r \in Runs :
        RunOf(r) = IF pc[r] = "init"
                   THEN NewRun(query[r], max_results[r])
                   ELSE SoloRun(query[r], max_results[r], papers, last_reply[r])

\* two runs of the same query are both between their rerank and their first
\* explanation, with the candidates in different orders
C19_Witness ==
    /\ pc[1] = "await_explain" /\ pc[2] = "await_explain"
    /\ query[1] = query[2]
    /\ Len(ranked[1]) = 2 /\ Len(ranked[2]) = 2
    /\ ranked[1][1].paper = ranked[2][2].paper
    /\ final_results[1] = <<>> /\ final_results[2] = <<>>

\* ------------------------------------------------------------------ C20
\* the caller has disconnected and the generator has seen it
Cancelled == raised \in {CancelledError, GeneratorExit}

\* C20: when the caller disconnects while event_stream is suspended with work
\* left to do, at a yield or in an await, the generator ends there: the step
\* in which it sees the disconnection yields no frame, neither a results nor
\* an error frame, and after it the generator takes no step at all, so it
\* starts no stage, issues no call and yields nothing.
C20_DisconnectAbandons ==
    [][/\ ~Cancelled
       /\ Cancelled' =>
             /\ events' = events
             /\ pc' = "closed"
             /\ \A i \in 1..Len(events) : events[i].type \notin {"results", "error"}]_vars

\* the caller went away during the second explanation call
C20_Witness ==
    /\ raised = CancelledError
    /\ last_reply.kind = "cancelled"
    /\ last_reply.call[1] = "explain"
    /\ Len(final_results) = 1
    /\ events[Len(events)].type = "status"

\* ------------------------------------------------------------------ C21
\* C21: when the response of /research/discover is complete, the route has
\* driven the service's stream_search(query, max_results), and the frames of
\* the body are the events that stream_search yielded, one frame per event
\* in the order yielded, none omitted and none replaced by an error frame.
C21_RouteDrivesStreamSearch ==
    pc = "closed" =>
        /\ calls = << <<"stream_search", query, max_results>> >>
        /\ Len(events) = Len(StubEvents)
        /\ \A i \in 1..Len(events) : events[i] = StubEvents[i]
        /\ \A i \in 1..Len(events) : events[i].type # "error"

\* ------------------------------------------------------------------ C22
\* C22: when at least one candidate was submitted and the rerank service
\* answered with a results list of which no entry parses into an (index,
\* score) pair, the empty list included, the run has ended with an error and
\* has emitted neither a ranking event nor a results event.
C22_NoParsableEntryIsFatal ==
    ( /\ HasResults
      /\ Submitted # <<>>
      /\ \A i \in 1..Len(last_reply.results) : ~EntryParses(last_reply.results[i]) )
    => /\ pc = "raised"
       /\ raised # NoError
       /\ RankCompleted = {}
       /\ IndicesOfType("results") = {}

\* ------------------------------------------------------------------ C23
ExpansionSet == {expansions[i] : i \in 1..Len(expansions)}

\* the content holds no phrase: nothing but dashes and white space
NoPhrase(content) == \A i \in 1..Len(content) : content[i] \in {"-"} \cup Whitespace

SharesToken(paper, text) ==
    Tokenize(ToDocument(paper)) \cap Tokenize(text) # {}

\* C23 as claimed: whatever the reply, the expansion list that query
\* expansion returned has the trimmed query among its members.
C23_QueryInExpansions ==
    (ExpandReplied /\ raised = NoError) => Strip(query) \in ExpansionSet

\* C23 as amended: the expansion list that query expansion returned is never
\* empty and has at most MaxExpansions members; it is the list of the trimmed
\* query alone when the reply's content holds no phrase, and it holds only
\* the reply's phrases otherwise.  Retrieval nevertheless always matches
\* against the query as well: every index entry that shares a token with the
\* query is a candidate, unless the candidate list was cut at its limit.
C23_QueryKeptForRetrieval ==
    /\ (ExpandReplied /\ raised = NoError) =>
          /\ expansions # <<>>
          /\ Len(expansions) <= MaxExpansions
          /\ NoPhrase(last_reply.content) => expansions = <<Strip(query)>>
          /\ ~NoPhrase(last_reply.content) => 
                \A i \in 1..Len(expansions) :
                    \E j \in 1..Len(last_reply.content) :
                        /\ last_reply.content[j] = expansions[i][1]
                        /\ last_reply.content[j] \notin {"-"} \cup Whitespace
    /\ pc = "y_retrieve_completed" =>
          \/ Len(candidates) = max_results * RetrievalFactor
          \/ \A i \in 1..Len(papers) :
                SharesToken(papers[i], query) =>
                    \E j \in 1..Len(candidates) : candidates[j].paper = papers[i]

\* the list lacks the query, and an index entry that matches the query and
\* no phrase of the list was retrieved
C23_Witness ==
    /\ pc = "y_retrieve_completed"
    /\ Strip(query) \notin ExpansionSet
    /\ \E j \in 1..Len(candidates) :
          /\ SharesToken(candidates[j].paper, query)
          /\ \A i \in 1..Len(expansions) :
                ~SharesToken(candidates[j].paper, expansions[i])

\* ------------------------------------------------------------------ C24
\* C24: every entry of every results event emitted carries a justification
\* that is not empty.
C24_JustificationsNonEmpty ==
    \A i \in IndicesOfType("results") :
        \A k \in 1..Len(events[i].results) :
            events[i].results[k].justification # <<>>

\* ------------------------------------------------------------------ C25
\* the stored contexts that are not older than the TTL
Live == {storage[i].context :
            i \in {j \in 1..Len(storage) : now - storage[j].context.timestamp <= ttl}}

\* C25: whatever operations came before, a call of get_latest_context
\* returns none when no stored context is within the TTL, and otherwise
\* returns a stored context that is within the TTL and whose timestamp no
\* other stored context within the TTL exceeds.
C25_LatestLiveContext ==
    [][ pc' = "get_latest_context" =>
          IF Live = {} THEN latest_context' = None
          ELSE /\ latest_context' # None
               /\ latest_context'[1] \in Live
               /\ \A c \in Live : c.timestamp <= latest_context'[1].timestamp
      ]_vars

\* get_latest_context returned a context whose age is exactly the TTL while
\* a later-inserted, older-stamped one was within the TTL too
C25_Witness ==
    /\ pc = "get_latest_context"
    /\ latest_context # None
    /\ now - latest_context[1].timestamp = ttl
    /\ ttl > 0
    /\ Len(storage) = 2
    /\ storage[1].context = latest_context[1]
    /\ storage[2].context.timestamp = latest_context[1].timestamp

\* ------------------------------------------------------------------ C26
\* the total score of the index entry at position i
TotalScore(i) ==
    RetrievalScore(Tokenize(ToDocument(papers[i])),
                   <<Tokenize(query)>>
                   \o [k \in 1..Len(expansions) |-> Tokenize(expansions[k])])

Positive == {i \in 1..Len(papers) : TotalScore(i) > 0}

\* entry i comes before entry k in the retrieval order
Before(i, k) ==
    \/ TotalScore(i) > TotalScore(k)
    \/ TotalScore(i) = TotalScore(k) /\ i < k

\* the index position of the j-th candidate (the entries of the larger index
\* differ in paper_id)
PositionOf(j) == CHOOSE i \in 1..Len(papers) : papers[i] = candidates[j].paper

Limit == max_results * RetrievalFactor

\* the candidate list is the index entries of positive total score, by
\* non-increasing score with ties in index order, cut to the limit
RetrievalContract ==
    /\ Len(candidates) = Min(Limit, Cardinality(Positive))
    /\ \A j \in 1..Len(candidates) :
          /\ candidates[j].paper \in {papers[i] : i \in Positive}
          /\ candidates[j].retrieval_score = TotalScore(PositionOf(j))
    /\ \A j, k \in 1..Len(candidates) :
          j < k => Before(PositionOf(j), PositionOf(k))
    /\ \A i \in Positive :
          i \notin {PositionOf(j) : j \in 1..Len(candidates)} =>
              \A j \in 1..Len(candidates) : Before(PositionOf(j), i)

\* C26 as claimed: the contract, with the entries of positive total score
\* being those that share a token with some phrase of the expansion list.
C26_PositiveIsPhraseMatch ==
    pc = "y_retrieve_completed" =>
        /\ RetrievalContract
        /\ Positive = {i \in 1..Len(papers) :
                          \E k \in 1..Len(expansions) :
                              SharesToken(papers[i], expansions[k])}

\* C26 as amended: the contract, with the entries of positive total score
\* being those that share a token with the query or with some phrase of the
\* expansion list.
C26_PositiveIsQueryOrPhraseMatch ==
    pc = "y_retrieve_completed" =>
        /\ RetrievalContract
        /\ Positive = {i \in 1..Len(papers) :
                          \/ SharesToken(papers[i], query)
                          \/ \E k \in 1..Len(expansions) :
                                SharesToken(papers[i], expansions[k])}

\* more entries matched than the limit lets through, two of the kept ones
\* tie and two differ in score
C26_Witness ==
    /\ pc = "y_retrieve_completed"
    /\ Cardinality(Positive) > Limit
    /\ Len(candidates) = Limit
    /\ \E j \in 1..(Len(candidates) - 1) :
          candidates[j].retrieval_score = candidates[j + 1].retrieval_score
    /\ candidates[1].retrieval_score > candidates[Len(candidates)].retrieval_score

\* ------------------------------------------------------------------ C27
\* C27: in the rerank request, the text of every candidate's document has at
\* most max_context_chars characters.
C27_TextWithinBudget ==
    pc = "await_rank" =>
        \A i \in 1..Len(Submitted) :
            Len(RerankDocuments(Submitted)[i].text) <= max_context_chars

\* ------------------------------------------------------------------ C28
Stages == <<"expand", "retrieve", "rank", "explain">>

StageIndex(step_id) == CHOOSE i \in 1..Len(Stages) : Stages[i] = step_id

\* the stage whose external call was issued last
CallingStage ==
    CASE calls[Len(calls)][1] = "expand" -> "expand"
      [] calls[Len(calls)][1] = "rerank" -> "rank"
      [] calls[Len(calls)][1] = "explain" -> "explain"

\* C28: no step event ever has the status 'failed'.  When the latest external
\* call failed in transport, the run has raised ResearchServiceError; and when
\* its reply was one the stage cannot use, for that or for any other reason,
\* the run has raised and takes no further step, the last event yielded is
\* the 'started' event of the calling stage, and neither a 'completed' event
\* of that or a later stage nor a results event was yielded.
C28_FailureEndsAtStarted ==
    /\ \A i \in 1..Len(events) :
          events[i].type = "step" => events[i].status \in {"started", "completed"}
    /\ last_reply.kind = "transport_error" => raised = ServiceError
    /\ (last_reply # NoReply /\ ~Usable(last_reply)) =>
          /\ pc = "raised"
          /\ raised # NoError
          /\ ~ENABLED Next
          /\ events # <<>>
          /\ Signature(events[Len(events)]) = <<CallingStage, "started">>
          /\ IndicesOfType("results") = {}
          /\ \A i \in 1..Len(events) :
                (events[i].type = "step" /\ events[i].status = "completed") =>
                    StageIndex(events[i].step_id) < StageIndex(CallingStage)

\* the transport of an explanation call failed after an explanation that
\* succeeded
C28_Witness ==
    /\ pc = "raised"
    /\ last_reply.kind = "transport_error"
    /\ raised = ServiceError
    /\ calls[Len(calls)][1] = "explain"
    /\ Len(final_results) = 1
    /\ Signature(events[Len(events)]) = <<"explain", "started">>

\* ------------------------------------------------------------------ C29
\* the rerank service was called and the rank stage completed
Reranked == Len(calls) >= 2 /\ RankCompleted # {}

\* the ranking event
RankingEvent == events[CHOOSE i \in RankCompleted : TRUE]

\* C29: once the rank stage has completed on a response of the rerank
\* service, the ranked list holds the submitted candidates, each once, with
\* nothing but the rerank score changed; while that response is the latest
\* reply, a candidate at whose submitted position no entry of the response
\* points has the rerank score 0; and the k-th final result is for the paper
\* the ranking event lists k-th and has that entry's score as its relevance.
C29_RerankPermutes ==
    Reranked =>
        /\ Len(ranked) = Len(Submitted)
        /\ \E f \in Perms(Len(ranked)) :
              \A k \in 1..Len(ranked) :
                 /\ ranked[k].paper = Submitted[f[k]].paper
                 /\ ranked[k].retrieval_score = Submitted[f[k]].retrieval_score
                 /\ ranked[k].rerank_score # None
                 /\ ( /\ HasResults
                      /\ \A e \in 1..Len(last_reply.results) :
                            last_reply.results[e].index # f[k] - 1 )
                    => ranked[k].rerank_score = Some(0)
        /\ \A k \in 1..Len(final_results) :
              /\ final_results[k].paper_id = RankingEvent.payload[k].paper_id
              /\ Some(final_results[k].relevance) = RankingEvent.payload[k].score

\* of two candidates the response scored the second only; the first went
\* below it with the score 0 and both became results
C29_Witness ==
    /\ Reranked
    /\ Len(Submitted) = 2
    /\ ranked[1].paper = Submitted[2].paper
    /\ ranked[2].rerank_score = Some(0)
    /\ ranked[1].rerank_score # Some(0)
    /\ Len(final_results) = 2
    /\ final_results[2].relevance = 0

\* ------------------------------------------------------------------ C30
\* the run is Completed, its results event emitted, or Failed
Terminal == pc = "raised" \/ IndicesOfType("results") # {}

====
